---- MODULE Spec2Model ----
(***************************************************************************)
(* Model of package db2go: the name normaliser Camelize, the column type   *)
(* resolver getType and the struct emitter CreateStruct.                    *)
(*                                                                          *)
(* A Go string is a sequence of bytes.  A byte is written as a TLA+ string: *)
(* an ASCII byte is the one-character string of its character ("a", "(",    *)
(* "\n"), a byte >= 0x80 is named by its hexadecimal value ("xC3").  The    *)
(* Go string "int8" is therefore <<"i", "n", "t", "8">>, and len(s) of the  *)
(* code is Len(s) here.  The backquote (0x60), which a TLA+ string cannot   *)
(* hold, is named "x60" as well.                                            *)
(***************************************************************************)
EXTENDS Integers, Sequences, FiniteSets, TLC

VARIABLES
    fn,           \* the function under call: "getType", "Camelize", "CreateStruct"
    pc,           \* "ready" before the call, "done" after a return, "panic" after a panic
    t,            \* getType: the TableDescriptor argument
    cleanType,    \* getType: the local cleanType when the switch is reached
    isUnsigned,   \* getType: the local isUnsigned
    input,        \* Camelize: the input argument
    capitalised,  \* Camelize: the capitalised argument
    tt,           \* CreateStruct: the slice of TableDescriptor
    tableName,    \* CreateStruct: the tableName argument
    withJson,     \* CreateStruct: the withJson argument
    result,       \* the string returned by the call (<<>> until it returns)
    panicMsg,     \* the value the call panicked with ("" when it did not)
    filePresent,  \* does the file named filename exist?
    fileContent,  \* the content of that file (<<>> when it does not exist)
    filePartial,  \* a failed WriteString has left part of its value after fileContent
    descriptors,  \* CreateAllTablesStructFile: the map from table name to columns
    packageName,  \* CreateAllTablesStructFile: the packageName argument
    remaining,    \* CreateAllTablesStructFile: the keys the range loop has yet to visit
    emitted,      \* CreateAllTablesStructFile: the keys visited, in order
    builder,      \* CreateAllTablesStructFile: the content of builder
    nCalls,       \* the number of calls of CreateAllTablesStructFile that returned
    file0,        \* history: the file before the first call
    fileAtCall,   \* history: the file when the current call began
    written       \* history: the values of the writeToFile calls that succeeded

\* The state of the file-writing calls.
fileVars == <<filePresent, fileContent, filePartial, descriptors, packageName,
              remaining, emitted, builder, nCalls, file0, fileAtCall, written>>

vars == <<fn, pc, t, cleanType, isUnsigned, input, capitalised, tt, tableName,
          withJson, result, panicMsg, fileVars>>

----------------------------------------------------------------------------
(* Bytes and runes *)

Lower == <<"a", "b", "c", "d", "e", "f", "g", "h", "i", "j", "k", "l", "m",
           "n", "o", "p", "q", "r", "s", "t", "u", "v", "w", "x", "y", "z">>

Upper == <<"A", "B", "C", "D", "E", "F", "G", "H", "I", "J", "K", "L", "M",
           "N", "O", "P", "Q", "R", "S", "T", "U", "V", "W", "X", "Y", "Z">>

\* The bytes >= 0x80 of the model: 0xC3 0xA9 is the UTF-8 encoding of U+00E9
\* (e acute), 0xC3 0x89 of U+00C9 (E acute), 0xC3 0x83 of U+00C3 (A tilde).
\* 0xC2 0xA9 is U+00A9 (copyright sign), which has no upper case.
LeadBytes == {"xC2", "xC3"}
ContBytes == {"x83", "x89", "xA9"}
HighBytes == LeadBytes \cup ContBytes

\* unicode.ToUpper on a one-byte (ASCII) rune.
UpperByte(b) ==
    IF \E i \in DOMAIN Lower : Lower[i] = b
    THEN Upper[CHOOSE i \in DOMAIN Lower : Lower[i] = b]
    ELSE b

\* unicode.ToLower on a one-byte (ASCII) rune.
LowerByte(b) ==
    IF \E i \in DOMAIN Upper : Upper[i] = b
    THEN Lower[CHOOSE i \in DOMAIN Upper : Upper[i] = b]
    ELSE b

\* Does a two-byte rune start at position i of s?
IsRune2At(s, i) ==
    /\ i + 1 <= Len(s)
    /\ s[i] \in LeadBytes
    /\ s[i + 1] \in ContBytes

\* utf8.RuneCountInString: a well-formed two-byte sequence is one rune, every
\* other byte (ASCII, or a byte that is not part of a well-formed sequence)
\* counts as one rune.  fmt pads %-Ns by this count.
RECURSIVE RuneCountFrom(_, _)
RuneCountFrom(s, i) ==
    IF i > Len(s) THEN 0
    ELSE IF IsRune2At(s, i) THEN 1 + RuneCountFrom(s, i + 2)
    ELSE 1 + RuneCountFrom(s, i + 1)

RuneCount(s) == RuneCountFrom(s, 1)

\* strings.ToUpper: maps every rune to its upper case.  ASCII letters map
\* bytewise; U+00E9 (0xC3 0xA9) maps to U+00C9 (0xC3 0x89).
RECURSIVE ToUpperFrom(_, _)
ToUpperFrom(s, i) ==
    IF i > Len(s) THEN <<>>
    ELSE IF IsRune2At(s, i)
         THEN <<s[i], IF s[i] = "xC3" /\ s[i + 1] = "xA9" THEN "x89" ELSE s[i + 1]>>
              \o ToUpperFrom(s, i + 2)
    ELSE <<UpperByte(s[i])>> \o ToUpperFrom(s, i + 1)

ToUpper(s) == ToUpperFrom(s, 1)

\* string(b) for a byte b, as in string(words[i][0]): the UTF-8 encoding of
\* the rune whose code point is the byte's value.  An ASCII byte gives a
\* one-byte string; a byte in 0x80..0xBF gives 0xC2 followed by the byte; a
\* byte in 0xC0..0xFF gives 0xC3 followed by the byte minus 0x40 (0xC3 gives
\* U+00C3, which is 0xC3 0x83, and 0xC2 gives U+00C2, which is 0xC3 0x82).
ByteToString(b) ==
    IF b = "xC3" THEN <<"xC3", "x83">>
    ELSE IF b = "xC2" THEN <<"xC3", "x82">>
    ELSE IF b \in ContBytes THEN <<"xC2", b>>
    ELSE <<b>>

----------------------------------------------------------------------------
(* Package strings *)

\* Does p occur in s at (1-based) position i?
HasPrefixAt(s, p, i) ==
    /\ i + Len(p) - 1 <= Len(s)
    /\ \A k \in 1..Len(p) : s[i + k - 1] = p[k]

\* strings.Contains
Contains(s, p) == \E i \in 1..(Len(s) + 1) : HasPrefixAt(s, p, i)

\* strings.ReplaceAll(s, old, ""), old non-empty: the non-overlapping
\* occurrences of old are removed, scanning left to right, in one pass.
RECURSIVE RemoveAllFrom(_, _, _)
RemoveAllFrom(s, old, i) ==
    IF i > Len(s) THEN <<>>
    ELSE IF HasPrefixAt(s, old, i) THEN RemoveAllFrom(s, old, i + Len(old))
    ELSE <<s[i]>> \o RemoveAllFrom(s, old, i + 1)

RemoveAll(s, old) == RemoveAllFrom(s, old, 1)

\* unicode.IsSpace on the bytes of the model.
IsSpace(b) == b \in {" ", "\t", "\n", "\r"}

\* strings.TrimSpace: leading and trailing white space removed.
TrimSpace(s) ==
    IF \A i \in 1..Len(s) : IsSpace(s[i]) THEN <<>>
    ELSE LET first == CHOOSE i \in 1..Len(s) :
                          /\ ~IsSpace(s[i])
                          /\ \A j \in 1..(i - 1) : IsSpace(s[j])
             last  == CHOOSE i \in 1..Len(s) :
                          /\ ~IsSpace(s[i])
                          /\ \A j \in (i + 1)..Len(s) : IsSpace(s[j])
         IN  SubSeq(s, first, last)

\* strings.Index(s, b) for a one-byte b: the 0-based index of the first
\* occurrence, -1 when there is none.
Index(s, b) ==
    IF \E i \in 1..Len(s) : s[i] = b
    THEN (CHOOSE i \in 1..Len(s) : s[i] = b /\ \A j \in 1..(i - 1) : s[j] # b) - 1
    ELSE -1

\* strings.Split(s, sep) for a one-byte sep: the segments between the
\* separators, Len = number of separators + 1, empty segments kept.
Split(s, sep) ==
    LET hits     == {i \in 1..Len(s) : s[i] = sep}
        n        == Cardinality(hits)
        \* the position of the k-th separator; 0 and Len(s) + 1 at the ends
        bound(k) == IF k = 0 THEN 0
                    ELSE IF k > n THEN Len(s) + 1
                    ELSE CHOOSE i \in hits :
                             Cardinality({j \in hits : j <= i}) = k
    IN  [k \in 1..(n + 1) |-> SubSeq(s, bound(k - 1) + 1, bound(k) - 1)]

\* strings.Join(words, ""), and every sequence of WriteString calls.
RECURSIVE Join(_)
Join(words) ==
    IF words = <<>> THEN <<>> ELSE Head(words) \o Join(Tail(words))

----------------------------------------------------------------------------
(* Camelize *)

\* strings.ToUpper(string(words[i][0])) + words[i][1:], for a non-empty word:
\* the first BYTE of the word is converted to a string and upper-cased.
CapitaliseWord(w) ==
    ToUpper(ByteToString(w[1])) \o SubSeq(w, 2, Len(w))

\* Mutant of CamelizeWord: the first word is capitalised whatever the flag.
CamelizeWordAlways(w, i, cap) ==
    IF Len(w) > 0 THEN CapitaliseWord(w) ELSE w

\* The body of the loop of Camelize for words[i]; i is the 0-based index.
CamelizeWord(w, i, cap) ==
    IF i > 0 /\ Len(w) > 0 THEN CapitaliseWord(w)
    ELSE IF cap /\ i = 0 /\ Len(w) > 0 THEN CapitaliseWord(w)
    ELSE w

Camelize(s, cap) ==
    LET words == Split(s, "_")
    IN  Join([i \in 1..Len(words) |-> CamelizeWord(words[i], i - 1, cap)])

----------------------------------------------------------------------------
(* getType *)

TextTokens ==
    { <<"V", "A", "R", "C", "H", "A", "R">>,
      <<"T", "E", "X", "T">>,
      <<"C", "H", "A", "R">>,
      <<"E", "N", "U", "M">>,
      <<"S", "E", "T">>,
      <<"L", "O", "N", "G", "T", "E", "X", "T">>,
      <<"M", "E", "D", "I", "U", "M", "T", "E", "X", "T">>,
      <<"T", "I", "N", "Y", "T", "E", "X", "T">> }

BIGINT == <<"B", "I", "G", "I", "N", "T">>

Int32Tokens ==
    { <<"I", "N", "T">>,
      <<"M", "E", "D", "I", "U", "M", "I", "N", "T">> }

SMALLINT == <<"S", "M", "A", "L", "L", "I", "N", "T">>

TINYINT == <<"T", "I", "N", "Y", "I", "N", "T">>

FloatTokens ==
    { <<"F", "L", "O", "A", "T">>,
      <<"D", "O", "U", "B", "L", "E">>,
      <<"D", "E", "C", "I", "M", "A", "L">> }

TimeTokens ==
    { <<"D", "A", "T", "E">>,
      <<"D", "A", "T", "E", "T", "I", "M", "E">>,
      <<"T", "I", "M", "E", "S", "T", "A", "M", "P">>,
      <<"T", "I", "M", "E">>,
      <<"Y", "E", "A", "R">> }

ByteTokens ==
    { <<"B", "L", "O", "B">>,
      <<"L", "O", "N", "G", "B", "L", "O", "B">>,
      <<"M", "E", "D", "I", "U", "M", "B", "L", "O", "B">>,
      <<"T", "I", "N", "Y", "B", "L", "O", "B">>,
      <<"B", "I", "N", "A", "R", "Y">>,
      <<"V", "A", "R", "B", "I", "N", "A", "R", "Y">> }

BoolTokens ==
    { <<"B", "I", "T">>,
      <<"B", "O", "O", "L">>,
      <<"B", "O", "O", "L", "E", "A", "N">> }

UNSIGNED == <<"U", "N", "S", "I", "G", "N", "E", "D">>

GoString == <<"s", "t", "r", "i", "n", "g">>
GoInt64 == <<"i", "n", "t", "6", "4">>
GoInt32 == <<"i", "n", "t", "3", "2">>
GoInt16 == <<"i", "n", "t", "1", "6">>
GoInt8 == <<"i", "n", "t", "8">>
GoFloat64 == <<"f", "l", "o", "a", "t", "6", "4">>
GoTime == <<"t", "i", "m", "e", ".", "T", "i", "m", "e">>
GoBytes == <<"[", "]", "b", "y", "t", "e">>
GoBool == <<"b", "o", "o", "l">>
GoInterface == <<"i", "n", "t", "e", "r", "f", "a", "c", "e", "{", "}">>

\* isUnsigned := strings.Contains(strings.ToUpper(t.Type), "UNSIGNED")
IsUnsigned(type) == Contains(ToUpper(type), UNSIGNED)

\* Mutant of CutParenthesis: cuts at the last "(" (strings.LastIndex) instead
\* of the first.
CutParenthesisAtLast(s) ==
    LET hits == {i \in 1..Len(s) : s[i] = "("}
        posParentesis ==
            IF hits = {} THEN -1
            ELSE (CHOOSE i \in hits : \A j \in hits : j <= i) - 1
    IN  IF posParentesis > 0 THEN SubSeq(s, 1, posParentesis) ELSE s

\* The parenthesis step: cleanType[0:posParentesis] when posParentesis > 0.
CutParenthesis(s) ==
    LET posParentesis == Index(s, "(")
    IN  IF posParentesis > 0 THEN SubSeq(s, 1, posParentesis) ELSE s

\* The value of cleanType when the switch is reached: upper case, every
\* "UNSIGNED" removed, white space trimmed, cut at the first "(".
CleanType(type) ==
    CutParenthesis(TrimSpace(RemoveAll(ToUpper(type), UNSIGNED)))

\* The content of the builder before the switch.
NullPrefix(null) == IF null = "YES" THEN <<"*">> ELSE <<>>

\* The "u" written by the integer cases.
UnsignedPrefix(unsigned) == IF unsigned THEN <<"u">> ELSE <<>>

\* Mutant of SwitchType: the byte-sequence case without its result.Reset().
SwitchTypeBytesKeepPrefix(clean, unsigned, prefix) ==
    IF clean \in TextTokens THEN prefix \o GoString
    ELSE IF clean = BIGINT THEN prefix \o UnsignedPrefix(unsigned) \o GoInt64
    ELSE IF clean \in Int32Tokens THEN prefix \o UnsignedPrefix(unsigned) \o GoInt32
    ELSE IF clean = SMALLINT THEN prefix \o UnsignedPrefix(unsigned) \o GoInt16
    ELSE IF clean = TINYINT THEN prefix \o UnsignedPrefix(unsigned) \o GoInt8
    ELSE IF clean \in FloatTokens THEN prefix \o GoFloat64
    ELSE IF clean \in TimeTokens THEN prefix \o GoTime
    ELSE IF clean \in ByteTokens THEN prefix \o GoBytes
    ELSE IF clean \in BoolTokens THEN prefix \o GoBool
    ELSE GoInterface

\* Mutant of SwitchType: the TINYINT case without its isUnsigned test.
SwitchTypeTinySigned(clean, unsigned, prefix) ==
    IF clean \in TextTokens THEN prefix \o GoString
    ELSE IF clean = BIGINT THEN prefix \o UnsignedPrefix(unsigned) \o GoInt64
    ELSE IF clean \in Int32Tokens THEN prefix \o UnsignedPrefix(unsigned) \o GoInt32
    ELSE IF clean = SMALLINT THEN prefix \o UnsignedPrefix(unsigned) \o GoInt16
    ELSE IF clean = TINYINT THEN prefix \o GoInt8
    ELSE IF clean \in FloatTokens THEN prefix \o GoFloat64
    ELSE IF clean \in TimeTokens THEN prefix \o GoTime
    ELSE IF clean \in ByteTokens THEN GoBytes
    ELSE IF clean \in BoolTokens THEN prefix \o GoBool
    ELSE GoInterface

\* Mutant of SwitchType: MEDIUMINT falls in the BIGINT case.
SwitchTypeMediumWide(clean, unsigned, prefix) ==
    IF clean \in TextTokens THEN prefix \o GoString
    ELSE IF clean \in {BIGINT, <<"M", "E", "D", "I", "U", "M", "I", "N", "T">>}
         THEN prefix \o UnsignedPrefix(unsigned) \o GoInt64
    ELSE IF clean \in Int32Tokens THEN prefix \o UnsignedPrefix(unsigned) \o GoInt32
    ELSE IF clean = SMALLINT THEN prefix \o UnsignedPrefix(unsigned) \o GoInt16
    ELSE IF clean = TINYINT THEN prefix \o UnsignedPrefix(unsigned) \o GoInt8
    ELSE IF clean \in FloatTokens THEN prefix \o GoFloat64
    ELSE IF clean \in TimeTokens THEN prefix \o GoTime
    ELSE IF clean \in ByteTokens THEN GoBytes
    ELSE IF clean \in BoolTokens THEN prefix \o GoBool
    ELSE GoInterface

\* Mutant of SwitchType: the default case without its result.Reset().
SwitchTypeDefaultKeepPrefix(clean, unsigned, prefix) ==
    IF clean \in TextTokens THEN prefix \o GoString
    ELSE IF clean = BIGINT THEN prefix \o UnsignedPrefix(unsigned) \o GoInt64
    ELSE IF clean \in Int32Tokens THEN prefix \o UnsignedPrefix(unsigned) \o GoInt32
    ELSE IF clean = SMALLINT THEN prefix \o UnsignedPrefix(unsigned) \o GoInt16
    ELSE IF clean = TINYINT THEN prefix \o UnsignedPrefix(unsigned) \o GoInt8
    ELSE IF clean \in FloatTokens THEN prefix \o GoFloat64
    ELSE IF clean \in TimeTokens THEN prefix \o GoTime
    ELSE IF clean \in ByteTokens THEN GoBytes
    ELSE IF clean \in BoolTokens THEN prefix \o GoBool
    ELSE prefix \o GoInterface

\* The switch on cleanType, given the builder content prefix; result.Reset()
\* drops the prefix.
SwitchType(clean, unsigned, prefix) ==
    IF clean \in TextTokens THEN prefix \o GoString
    ELSE IF clean = BIGINT THEN prefix \o UnsignedPrefix(unsigned) \o GoInt64
    ELSE IF clean \in Int32Tokens THEN prefix \o UnsignedPrefix(unsigned) \o GoInt32
    ELSE IF clean = SMALLINT THEN prefix \o UnsignedPrefix(unsigned) \o GoInt16
    ELSE IF clean = TINYINT THEN prefix \o UnsignedPrefix(unsigned) \o GoInt8
    ELSE IF clean \in FloatTokens THEN prefix \o GoFloat64
    ELSE IF clean \in TimeTokens THEN prefix \o GoTime
    ELSE IF clean \in ByteTokens THEN GoBytes
    ELSE IF clean \in BoolTokens THEN prefix \o GoBool
    ELSE GoInterface

getType(d) ==
    SwitchType(CleanType(d.Type), IsUnsigned(d.Type), NullPrefix(d.Null))

----------------------------------------------------------------------------
(* CreateStruct *)

Max(a, b) == IF a > b THEN a ELSE b

Spaces(n) == [i \in 1..n |-> " "]

\* fmt.Sprintf("%-Ns", s): s, then spaces up to a width of n runes; fmt
\* measures the width in runes, and never truncates.
PadRight(s, n) == s \o Spaces(Max(0, n - RuneCount(s)))

\* Mutant of Row: the tag name is built with capitalised = true as well.
RowPascalTag(d, json) ==
    <<Camelize(d.Field, TRUE), getType(d)>>
        \o (IF json THEN <<Camelize(d.Field, TRUE)>> ELSE <<>>)

\* The row built for one descriptor: the PascalCase name, the type and, when
\* withJson, the camelCase name.
Row(d, json) ==
    <<Camelize(d.Field, TRUE), getType(d)>>
        \o (IF json THEN <<Camelize(d.Field, FALSE)>> ELSE <<>>)

\* Mutant of Rows: the rows are collected in reverse order.
RowsReversed(descs, json) ==
    [i \in 1..Len(descs) |-> Row(descs[Len(descs) + 1 - i], json)]

Rows(descs, json) == [i \in 1..Len(descs) |-> Row(descs[i], json)]

\* Mutant of MaxLenOf: the width is taken from the first row only.
MaxLenOfFirst(rows, col) ==
    IF rows = <<>> THEN 0 ELSE Len(Head(rows)[col])

\* withField and withType after the first loop: the largest len(row[0]) and
\* len(row[1]), in bytes, starting from 0.
RECURSIVE MaxLenOf(_, _)
MaxLenOf(rows, col) ==
    IF rows = <<>> THEN 0
    ELSE Max(Len(Head(rows)[col]), MaxLenOf(Tail(rows), col))

\* The header written before the rows.
HeaderLine(table) ==
    <<"t", "y", "p", "e", " ">> \o Camelize(table, TRUE)
        \o <<"D", "a", "t", "a", " ", "s", "t", "r", "u", "c", " ", "{", "\n">>

\* The tag written when the row has three elements.
JsonTag(name) ==
    <<"\t", "x60", "j", "s", "o", "n", ":", "\"">> \o name \o <<"\"", "x60">>

\* What the second loop writes for one row.
FieldLine(row, withField, withType) ==
    <<" ", " ", " ", " ">> \o PadRight(row[1], withField) \o <<" ">>
        \o PadRight(row[2], withType)
        \o (IF Len(row) = 3 THEN JsonTag(row[3]) ELSE <<>>)
        \o <<"\n">>

\* The text CreateStruct returns for a non-empty slice.
StructText(descs, table, json) ==
    LET temp      == Rows(descs, json)
        withField == MaxLenOf(temp, 1)
        withType  == MaxLenOf(temp, 2)
    IN  HeaderLine(table)
            \o Join([i \in 1..Len(temp) |-> FieldLine(temp[i], withField, withType)])
            \o <<"}">>

PanicEmpty == "table descriptor is empty"

----------------------------------------------------------------------------
(* The calls: arguments drawn from bounded sets *)

MaxDecor == 2   \* suffixes appended to a type token
MaxName  == 4   \* runes of a generated identifier
MaxCols  == 2   \* descriptors of a table

\* All sequences over S of length at most n.
SeqUpTo(S, n) == UNION {[1..k -> S] : k \in 0..n}

ToLower(s) == [i \in 1..Len(s) |-> LowerByte(s[i])]

\* First letter upper case, the rest lower case ("Varchar").
TitleCase(s) == [i \in 1..Len(s) |-> IF i = 1 THEN s[i] ELSE LowerByte(s[i])]

IntTokens == {BIGINT, SMALLINT, TINYINT} \cup Int32Tokens

\* The type tokens of the switch of getType.
KnownTokens ==
    TextTokens \cup IntTokens \cup FloatTokens \cup TimeTokens
        \cup ByteTokens \cup BoolTokens

\* Tokens that are not case labels: empty, unsupported types, and a marker
\* nested in a marker.
UnknownTokens ==
    { <<>>,
      <<"J", "S", "O", "N">>,
      <<"I", "N", "T", "E", "G", "E", "R">>,
      <<"U", "N", "S", "I", "U", "N", "S", "I", "G", "N", "E", "D", "G", "N", "E", "D">> }

\* What may follow the token in a Type: a length, the UNSIGNED marker in
\* either case, with and without a blank, a blank, an open parenthesis.
Decorations ==
    { <<"(", "1", "1", ")">>,
      <<" ", "U", "N", "S", "I", "G", "N", "E", "D">>,
      <<" ", "u", "n", "s", "i", "g", "n", "e", "d">>,
      <<" ">>,
      <<"(">>,
      <<"U", "N", "S", "I", "G", "N", "E", "D">> }

TypeHeads ==
    KnownTokens \cup UnknownTokens
        \cup {ToLower(k) : k \in KnownTokens}
        \cup {TitleCase(k) : k \in IntTokens \cup FloatTokens}

\* The Type strings of the getType calls, well-formed or not.
TypeStrings ==
    {h \o Join(d) : h \in TypeHeads, d \in SeqUpTo(Decorations, MaxDecor)}

\* The Null column of DESCRIBE.
NullValues == {"YES", "NO"}

\* The runes identifiers are made of: letters of both cases, the underscore
\* and a two-byte letter (U+00E9).
NameRunes == { <<"a">>, <<"B">>, <<"_">>, <<"xC3", "xA9">> }

Names ==
    {Join(r) : r \in SeqUpTo(NameRunes, MaxName)}
        \cup { <<"e", "x", "a", "m", "p", "l", "e", "_", "i", "n", "p", "u", "t">>,
               <<"u", "s", "e", "r", "_", "n", "a", "m", "e">>,
               <<"_", "i", "d">>,
               <<"a", "_", "_", "b">>,
               <<"xC3", "xA9", "t", "xC3", "xA9", "_", "xC3", "xA9">> }

\* The columns of the CreateStruct calls.
Columns ==
    { [Field |-> <<"i", "d">>, Null |-> "NO",
       Type |-> <<"B", "I", "G", "I", "N", "T", " ", "U", "N", "S", "I", "G", "N", "E", "D">>],
      [Field |-> <<"u", "s", "e", "r", "_", "n", "a", "m", "e">>, Null |-> "YES",
       Type |-> <<"V", "A", "R", "C", "H", "A", "R", "(", "2", "5", "5", ")">>],
      [Field |-> <<"c", "r", "e", "a", "t", "e", "d", "_", "a", "t">>, Null |-> "NO",
       Type |-> <<"D", "A", "T", "E", "T", "I", "M", "E">>],
      [Field |-> <<"a", "v", "a", "t", "a", "r">>, Null |-> "YES",
       Type |-> <<"B", "L", "O", "B">>],
      [Field |-> <<"f", "l", "a", "g">>, Null |-> "NO",
       Type |-> <<"T", "I", "N", "Y", "I", "N", "T", " ", "U", "N", "S", "I", "G", "N", "E", "D">>],
      [Field |-> <<"u", "s", "e", "r", "N", "a", "m", "e">>, Null |-> "NO",
       Type |-> <<"t", "e", "x", "t">>],
      [Field |-> <<"xC3", "xA9">>, Null |-> "YES",
       Type |-> <<"j", "s", "o", "n">>],
      [Field |-> <<"_">>, Null |-> "YES",
       Type |-> <<"i", "n", "t", "(", "1", "1", ")">>] }

TableNames ==
    { <<"s", "e", "t", "t", "i", "n", "g", "s">>,
      <<"u", "s", "e", "r", "s">>,
      <<"u", "s", "e", "r", "_", "r", "o", "l", "e", "s">>,
      <<"xC3", "xA9">>,
      <<>> }

\* The zero TableDescriptor.
NoDescriptor == [Field |-> <<>>, Null |-> "", Type |-> <<>>]

----------------------------------------------------------------------------
(* The state machine: one call, from its arguments to its return or panic *)

InitGetType ==
    /\ fn = "getType"
    /\ t \in {[Field |-> <<"c">>, Null |-> n, Type |-> ty] :
                 n \in NullValues, ty \in TypeStrings}
    /\ input = <<>> /\ capitalised = FALSE
    /\ tt = <<>> /\ tableName = <<>> /\ withJson = FALSE

InitCamelize ==
    /\ fn = "Camelize"
    /\ input \in Names
    /\ capitalised \in BOOLEAN
    /\ t = NoDescriptor
    /\ tt = <<>> /\ tableName = <<>> /\ withJson = FALSE

InitCreateStruct ==
    /\ fn = "CreateStruct"
    /\ tt \in SeqUpTo(Columns, MaxCols)
    /\ tableName \in TableNames
    /\ withJson \in BOOLEAN
    /\ t = NoDescriptor
    /\ input = <<>> /\ capitalised = FALSE

\* No file and no file-writing call: the calls of Spec do not touch a file.
NoFileCall ==
    /\ filePresent = FALSE /\ fileContent = <<>> /\ filePartial = FALSE
    /\ descriptors = <<>> /\ packageName = <<>>
    /\ remaining = {} /\ emitted = <<>> /\ builder = <<>>
    /\ nCalls = 0
    /\ file0 = [present |-> FALSE, content |-> <<>>]
    /\ fileAtCall = file0
    /\ written = <<>>

Init ==
    /\ pc = "ready"
    /\ NoFileCall
    /\ cleanType = <<>>
    /\ isUnsigned = FALSE
    /\ result = <<>>
    /\ panicMsg = ""
    /\ (InitGetType \/ InitCamelize \/ InitCreateStruct)

\* getType(t): the cleaning, then the switch.
CallGetType ==
    /\ pc = "ready"
    /\ fn = "getType"
    /\ cleanType' = CleanType(t.Type)
    /\ isUnsigned' = IsUnsigned(t.Type)
    /\ result' = SwitchType(cleanType', isUnsigned', NullPrefix(t.Null))
    /\ pc' = "done"
    /\ UNCHANGED <<fn, t, input, capitalised, tt, tableName, withJson, panicMsg>>
    /\ UNCHANGED fileVars

\* Camelize(input, capitalised)
CallCamelize ==
    /\ pc = "ready"
    /\ fn = "Camelize"
    /\ result' = Camelize(input, capitalised)
    /\ pc' = "done"
    /\ UNCHANGED <<fn, t, cleanType, isUnsigned, input, capitalised, tt,
                   tableName, withJson, panicMsg>>
    /\ UNCHANGED fileVars

\* Mutant of CallCreateStruct: the len(tt) < 1 test is missing.
CallCreateStructUnguarded ==
    /\ pc = "ready"
    /\ fn = "CreateStruct"
    /\ pc' = "done"
    /\ result' = StructText(tt, tableName, withJson)
    /\ UNCHANGED <<fn, t, cleanType, isUnsigned, input, capitalised, tt,
                   tableName, withJson, panicMsg>>
    /\ UNCHANGED fileVars

\* CreateStruct(tt, tableName, withJson): panics on an empty slice, returns
\* the text otherwise.
CallCreateStruct ==
    /\ pc = "ready"
    /\ fn = "CreateStruct"
    /\ IF Len(tt) < 1
       THEN /\ pc' = "panic"
            /\ panicMsg' = PanicEmpty
            /\ result' = result
       ELSE /\ pc' = "done"
            /\ panicMsg' = panicMsg
            /\ result' = StructText(tt, tableName, withJson)
    /\ UNCHANGED <<fn, t, cleanType, isUnsigned, input, capitalised, tt,
                   tableName, withJson>>
    /\ UNCHANGED fileVars

Next == CallGetType \/ CallCamelize \/ CallCreateStruct

Spec == Init /\ [][Next]_vars

----------------------------------------------------------------------------
(* CreateAllTablesStructFile and writeToFile: calls in sequence on one file *)

MaxCalls == 2   \* calls of CreateAllTablesStructFile in a run

\* builder after the three WriteString calls before the loop.
PackageHeader(pkg) ==
    <<"p", "a", "c", "k", "a", "g", "e", " ">> \o pkg \o <<"\n", "\n">>

\* Mutant of AppendStruct: the "\n\n" after the struct is not written.
AppendStructNoSeparator(b, v, k, json) == b \o StructText(v, k, json)

\* builder after the body of the range loop for the entry k, v (v not empty).
AppendStruct(b, v, k, json) ==
    b \o StructText(v, k, json) \o <<"\n", "\n">>

\* Mutant of AppendToFile: the file is opened with O_TRUNC, not O_APPEND.
AppendToFileTruncating(content, value) == value

\* The content of the file after f.WriteString(value) on a file opened with
\* O_APPEND|O_CREATE|O_WRONLY.
AppendToFile(content, value) == content \o value

\* The table names and column lists of the maps.
FileTables ==
    { <<"u", "s", "e", "r", "s">>, <<"s", "e", "t", "t", "i", "n", "g", "s">> }

FileLists ==
    { <<>>,
      << [Field |-> <<"f", "l", "a", "g">>, Null |-> "NO",
          Type |-> <<"T", "I", "N", "Y", "I", "N", "T">>] >> }

\* map[string][]TableDescriptor: every map from some of the table names to
\* column lists, the empty map included.
DescriptorMaps == UNION {[S -> FileLists] : S \in SUBSET FileTables}

PackageNames == { <<"d", "b">>, <<"m", "o", "d", "e", "l", "s">> }

\* The file before the first call: absent, or holding earlier text.
InitialFiles ==
    { [present |-> FALSE, content |-> <<>>],
      [present |-> TRUE, content |-> <<"/", "/", "\n">>] }

InitFile ==
    /\ fn = "CreateAllTablesStructFile"
    /\ pc = "idle"
    /\ t = NoDescriptor /\ cleanType = <<>> /\ isUnsigned = FALSE
    /\ input = <<>> /\ capitalised = FALSE
    /\ tt = <<>> /\ tableName = <<>> /\ withJson = FALSE
    /\ result = <<>> /\ panicMsg = ""
    /\ file0 \in InitialFiles
    /\ filePresent = file0.present
    /\ fileContent = file0.content
    /\ filePartial = FALSE
    /\ fileAtCall = file0
    /\ descriptors = <<>> /\ packageName = <<>>
    /\ remaining = {} /\ emitted = <<>> /\ builder = <<>>
    /\ nCalls = 0
    /\ written = <<>>

callVars == <<fn, t, cleanType, isUnsigned, input, capitalised, tt, tableName,
              result>>

\* CreateAllTablesStructFile is called: the header is written to builder and
\* the range loop begins.
BeginCreateAll ==
    /\ pc = "idle"
    /\ nCalls < MaxCalls
    /\ \E m \in DescriptorMaps, pkg \in PackageNames, json \in BOOLEAN :
           /\ descriptors' = m
           /\ packageName' = pkg
           /\ withJson' = json
           /\ builder' = PackageHeader(pkg)
           /\ remaining' = DOMAIN m
    /\ emitted' = <<>>
    /\ fileAtCall' = [present |-> filePresent, content |-> fileContent]
    /\ pc' = "loop"
    /\ UNCHANGED <<callVars, panicMsg, filePresent, fileContent, filePartial,
                   nCalls, file0, written>>

\* Mutant of IterateTable: an entry with no columns is skipped.
IterateTableSkipEmpty ==
    /\ pc = "loop"
    /\ \E k \in remaining :
           /\ builder' = IF Len(descriptors[k]) < 1 THEN builder
                         ELSE AppendStruct(builder, descriptors[k], k, withJson)
           /\ remaining' = remaining \ {k}
           /\ emitted' = Append(emitted, k)
    /\ UNCHANGED <<callVars, pc, panicMsg, withJson, filePresent, fileContent,
                   filePartial, descriptors, packageName, nCalls, file0,
                   fileAtCall, written>>

\* One iteration of the range loop: the map yields one of the entries not yet
\* visited, in no fixed order; CreateStruct panics on an empty column list
\* and the panic leaves CreateAllTablesStructFile.
IterateTable ==
    /\ pc = "loop"
    /\ \E k \in remaining :
           IF Len(descriptors[k]) < 1
           THEN /\ pc' = "panic"
                /\ panicMsg' = PanicEmpty
                /\ UNCHANGED <<builder, remaining, emitted>>
           ELSE /\ builder' = AppendStruct(builder, descriptors[k], k, withJson)
                /\ remaining' = remaining \ {k}
                /\ emitted' = Append(emitted, k)
                /\ UNCHANGED <<pc, panicMsg>>
    /\ UNCHANGED <<callVars, withJson, filePresent, fileContent, filePartial,
                   descriptors, packageName, nCalls, file0, fileAtCall, written>>

\* writeToFile(builder.String(), filename) succeeds: the file is created if
\* absent and the value is appended; the call returns.
WriteToFileOk ==
    /\ pc = "loop"
    /\ remaining = {}
    /\ filePresent' = TRUE
    /\ fileContent' = AppendToFile(fileContent, builder)
    /\ written' = Append(written, builder)
    /\ nCalls' = nCalls + 1
    /\ pc' = "idle"
    /\ UNCHANGED <<callVars, panicMsg, withJson, filePartial, descriptors,
                   packageName, remaining, emitted, builder, file0, fileAtCall>>

\* os.OpenFile fails: writeToFile panics, the file is as it was.
WriteToFileOpenError ==
    /\ pc = "loop"
    /\ remaining = {}
    /\ pc' = "panic"
    /\ panicMsg' = "open error"
    /\ UNCHANGED <<callVars, withJson, fileVars>>

\* f.WriteString fails: writeToFile panics; the file exists and some part of
\* the value, possibly none, may follow its content.
WriteToFileWriteError ==
    /\ pc = "loop"
    /\ remaining = {}
    /\ pc' = "panic"
    /\ panicMsg' = "write error"
    /\ filePresent' = TRUE
    /\ filePartial' = TRUE
    /\ UNCHANGED <<callVars, withJson, fileContent, descriptors, packageName,
                   remaining, emitted, builder, nCalls, file0, fileAtCall,
                   written>>

NextFile ==
    \/ BeginCreateAll
    \/ IterateTable
    \/ WriteToFileOk
    \/ WriteToFileOpenError
    \/ WriteToFileWriteError

SpecFile == InitFile /\ [][NextFile]_vars

----------------------------------------------------------------------------
(* Properties *)

Returned(f) == fn = f /\ pc = "done"

\* The lines of a text: the segments between the line feeds.
Lines(text) == Split(text, "\n")

\* s without its blanks.
Squeeze(s) == SelectSeq(s, LAMBDA b : b # " ")

StartsWith(s, p) == HasPrefixAt(s, p, 1)

EndsWith(s, p) == Len(p) <= Len(s) /\ HasPrefixAt(s, p, Len(s) - Len(p) + 1)

\* The categories in which getType keeps the content of the builder.
PointerTokens ==
    TextTokens \cup IntTokens \cup FloatTokens \cup TimeTokens \cup BoolTokens

C2_UnsignedOnlyAddsU ==
    Returned("getType")
        => \A k \in IntTokens \cup FloatTokens :
               t.Type = k \o <<" ">> \o UNSIGNED
                   => LET signed == getType([t EXCEPT !.Type = k])
                      IN  IF k \in FloatTokens
                          THEN result = signed
                          ELSE \E p \in {<<>>, <<"*">>},
                                  w \in {GoInt8, GoInt16, GoInt32, GoInt64} :
                                   /\ signed = p \o w
                                   /\ result = p \o <<"u">> \o w

\* A nullable "TINYINT UNSIGNED" column has been resolved to "*uint8".
C2_Witness ==
    /\ Returned("getType")
    /\ t.Null = "YES"
    /\ t.Type = TINYINT \o <<" ">> \o UNSIGNED
    /\ result = <<"*", "u">> \o GoInt8

\* C3: the text returned by CreateStruct for n columns has n + 2 lines, and
\* the k-th field line is the one of the k-th column of the input: it
\* starts, blanks aside, with that column's PascalCase name and type.
C3_LineCountAndOrder ==
    Returned("CreateStruct")
        => /\ Len(Lines(result)) = Len(tt) + 2
           /\ \A k \in 1..Len(tt) :
                  StartsWith(Squeeze(Lines(result)[k + 1]),
                             Camelize(tt[k].Field, TRUE) \o getType(tt[k]))

\* A struct has been returned for two different columns whose normalised
\* names collide.
C3_Witness ==
    /\ Returned("CreateStruct")
    /\ Len(tt) = 2
    /\ tt[1] # tt[2]
    /\ tt[1].Field # tt[2].Field
    /\ Camelize(tt[1].Field, TRUE) = Camelize(tt[2].Field, TRUE)
    /\ Len(Lines(result)) = 4

\* C4: CreateStruct with an empty column list panics with "table descriptor
\* is empty" and returns no text; it never returns for an empty list.
C4_EmptyPanics ==
    (fn = "CreateStruct" /\ pc # "ready")
        => IF Len(tt) = 0
           THEN pc = "panic" /\ panicMsg = PanicEmpty /\ result = <<>>
           ELSE pc = "done" /\ panicMsg = ""

\* CreateStruct has panicked on an empty list, withJson set.
C4_Witness ==
    /\ fn = "CreateStruct"
    /\ pc = "panic"
    /\ tt = <<>>
    /\ withJson

\* White space at the end of s?
EndsInSpace(s) == Len(s) > 0 /\ IsSpace(s[Len(s)])

\* C5 as stated: the cleaning step of getType is idempotent on every raw
\* type string.
C5_CleanIdempotent ==
    Returned("getType") => CleanType(cleanType) = cleanType

\* C5 amended: cleaning the cleaned string again changes nothing exactly when
\* the cleaned string neither contains "UNSIGNED" nor ends in white space.
C5_CleanIdempotentWhenSettled ==
    Returned("getType")
        => (CleanType(cleanType) = cleanType
                <=> (~Contains(cleanType, UNSIGNED) /\ ~EndsInSpace(cleanType)))

\* A type with a length and the marker has been cleaned, and cleaning it
\* again gives the same token.
C5_Witness ==
    /\ Returned("getType")
    /\ t.Type = <<"i", "n", "t", "(", "1", "1", ")", " ", "u", "n", "s", "i", "g", "n", "e", "d">>
    /\ cleanType = <<"I", "N", "T">>
    /\ CleanType(cleanType) = cleanType

\* C6: Camelize(s, false) and Camelize(s, true) have the same length and are
\* equal at every position except possibly the first character of the first
\* non-empty segment, where they differ only in letter case.
C6_FlagOnlyChangesFirstLetter ==
    Returned("Camelize")
        => LET other == Camelize(input, ~capitalised)
           IN  /\ Len(other) = Len(result)
               /\ \A i \in 1..Len(result) :
                      other[i] # result[i]
                          => /\ i = 1
                             /\ Len(Split(input, "_")[1]) > 0
                             /\ UpperByte(other[i]) = UpperByte(result[i])

\* The mapping table of the claim: token, type.
C7_Table ==
    {
      <<<<"V", "A", "R", "C", "H", "A", "R">>, GoString>>,
      <<<<"T", "E", "X", "T">>, GoString>>,
      <<<<"C", "H", "A", "R">>, GoString>>,
      <<<<"E", "N", "U", "M">>, GoString>>,
      <<<<"S", "E", "T">>, GoString>>,
      <<<<"L", "O", "N", "G", "T", "E", "X", "T">>, GoString>>,
      <<<<"M", "E", "D", "I", "U", "M", "T", "E", "X", "T">>, GoString>>,
      <<<<"T", "I", "N", "Y", "T", "E", "X", "T">>, GoString>>,
      <<<<"B", "I", "G", "I", "N", "T">>, GoInt64>>,
      <<<<"I", "N", "T">>, GoInt32>>,
      <<<<"M", "E", "D", "I", "U", "M", "I", "N", "T">>, GoInt32>>,
      <<<<"S", "M", "A", "L", "L", "I", "N", "T">>, GoInt16>>,
      <<<<"T", "I", "N", "Y", "I", "N", "T">>, GoInt8>>,
      <<<<"F", "L", "O", "A", "T">>, GoFloat64>>,
      <<<<"D", "O", "U", "B", "L", "E">>, GoFloat64>>,
      <<<<"D", "E", "C", "I", "M", "A", "L">>, GoFloat64>>,
      <<<<"D", "A", "T", "E">>, GoTime>>,
      <<<<"D", "A", "T", "E", "T", "I", "M", "E">>, GoTime>>,
      <<<<"T", "I", "M", "E", "S", "T", "A", "M", "P">>, GoTime>>,
      <<<<"T", "I", "M", "E">>, GoTime>>,
      <<<<"Y", "E", "A", "R">>, GoTime>>,
      <<<<"B", "L", "O", "B">>, GoBytes>>,
      <<<<"L", "O", "N", "G", "B", "L", "O", "B">>, GoBytes>>,
      <<<<"M", "E", "D", "I", "U", "M", "B", "L", "O", "B">>, GoBytes>>,
      <<<<"T", "I", "N", "Y", "B", "L", "O", "B">>, GoBytes>>,
      <<<<"B", "I", "N", "A", "R", "Y">>, GoBytes>>,
      <<<<"V", "A", "R", "B", "I", "N", "A", "R", "Y">>, GoBytes>>,
      <<<<"B", "I", "T">>, GoBool>>,
      <<<<"B", "O", "O", "L">>, GoBool>>,
      <<<<"B", "O", "O", "L", "E", "A", "N">>, GoBool>> }

\* The tokens of the table.
C7_Tokens == {e[1] : e \in C7_Table}

\* C7: for a column that is not nullable and has no UNSIGNED marker, whose
\* type is a token of the table in any letter case, alone or followed by a
\* parenthesised length, getType returns the type the table gives.
C7_MappingTable ==
    (Returned("getType") /\ t.Null # "YES")
        => LET raw == ToUpper(t.Type)
           IN  \A e \in C7_Table :
                   (raw = e[1] \/ raw = e[1] \o <<"(", "1", "1", ")">>)
                       => result = e[2]

\* "varchar(11)", not nullable, has been resolved to "string".
C7_Witness ==
    /\ Returned("getType")
    /\ t.Null = "NO"
    /\ t.Type = <<"v", "a", "r", "c", "h", "a", "r", "(", "1", "1", ")">>
    /\ result = GoString

\* C8: getType returns a type for every type string and Null value, never
\* panics, and returns "interface{}" whenever the cleaned token is not in
\* the table.
C8_TotalWithPlaceholder ==
    fn = "getType"
        => /\ pc = "ready" => Len(getType(t)) > 0
           /\ pc # "ready"
                => /\ pc = "done"
                   /\ panicMsg = ""
                   /\ result = getType(t)
                   /\ cleanType \notin C7_Tokens
                          => result = GoInterface

\* A nullable column of a malformed type has been resolved to "interface{}".
C8_Witness ==
    /\ Returned("getType")
    /\ t.Null = "YES"
    /\ t.Type = <<"(", " ", "U", "N", "S", "I", "G", "N", "E", "D">>
    /\ result = GoInterface

\* C9: the text returned by CreateStruct starts with the line
\* "type <Camelize(tableName, true)>Data struct {" and ends with the line "}".
C9_StructDeclaration ==
    Returned("CreateStruct")
        => /\ Lines(result)[1]
                = <<"t", "y", "p", "e", " ">> \o Camelize(tableName, TRUE)
                    \o <<"D", "a", "t", "a", " ", "s", "t", "r", "u", "c", "t", " ", "{">>
           /\ Lines(result)[Len(Lines(result))] = <<"}">>

\* C10: with withJson every field line ends with the tag json:"<camelCase
\* name of its own column>" between backquotes; without it no field line
\* holds a tag, only the PascalCase name and the type (and blanks).
C10_TagOnlyWithJson ==
    Returned("CreateStruct")
        => \A k \in 1..Len(tt) :
               LET line == Lines(result)[k + 1]
                   name == Camelize(tt[k].Field, TRUE)
                   type == getType(tt[k])
               IN  IF withJson
                   THEN /\ EndsWith(line,
                               <<"x60", "j", "s", "o", "n", ":", "\"">>
                                   \o Camelize(tt[k].Field, FALSE)
                                   \o <<"\"", "x60">>)
                        /\ Cardinality({i \in 1..Len(line) : line[i] = "x60"}) = 2
                   ELSE /\ \A i \in 1..Len(line) : line[i] \notin {"x60", "\t", "\""}
                        /\ Squeeze(line) = name \o type

\* A struct with tags has been returned for "id" and "user_name".
C10_Witness ==
    /\ Returned("CreateStruct")
    /\ withJson
    /\ Len(tt) = 2
    /\ tt[1].Field = <<"i", "d">>
    /\ tt[2].Field = <<"u", "s", "e", "r", "_", "n", "a", "m", "e">>

\* The reference normaliser of C12: the first CHARACTER (rune) of a word in
\* upper case, the rest unchanged.
C12_CapitaliseRune(w) ==
    IF IsRune2At(w, 1)
    THEN ToUpper(SubSeq(w, 1, 2)) \o SubSeq(w, 3, Len(w))
    ELSE <<UpperByte(w[1])>> \o SubSeq(w, 2, Len(w))

\* Split on "_"; every non-empty segment of index >= 1 capitalised; segment 0
\* capitalised when the flag is set and it is not empty; joined.
C12_Reference(s, cap) ==
    LET words == Split(s, "_")
    IN  Join([i \in 1..Len(words) |->
                 IF Len(words[i]) > 0 /\ (i > 1 \/ cap)
                 THEN C12_CapitaliseRune(words[i])
                 ELSE words[i]])

\* C12: for every input and both flag values Camelize returns what the
\* reference normaliser returns.
C12_MatchesReference ==
    Returned("Camelize") => result = C12_Reference(input, capitalised)

MaxOf(S) == CHOOSE m \in S : \A x \in S : x <= m

\* s with (n - number of runes of s) blanks after it.
C15_Padded(s, n) == s \o [i \in 1..(n - RuneCount(s)) |-> " "]

\* C15: with Wf the largest len of the PascalCase names and Wt the largest len
\* of the types, every field line is four blanks, the whole name padded with
\* blanks to Wf characters, one blank, the whole type padded to Wt characters,
\* then the tag if any; so the type starts after 4 + Wf + 1 characters on
\* every line.
C15_AlignedColumns ==
    Returned("CreateStruct")
        => LET name(k) == Camelize(tt[k].Field, TRUE)
               type(k) == getType(tt[k])
               Wf == MaxOf({Len(name(k)) : k \in 1..Len(tt)})
               Wt == MaxOf({Len(type(k)) : k \in 1..Len(tt)})
           IN  \A k \in 1..Len(tt) :
                   LET line == Lines(result)[k + 1]
                       head == <<" ", " ", " ", " ">> \o C15_Padded(name(k), Wf)
                                   \o <<" ">>
                       cols == head \o C15_Padded(type(k), Wt)
                   IN  /\ StartsWith(line, cols)
                       /\ RuneCount(head) = 4 + Wf + 1
                       /\ RuneCount(cols) = 4 + Wf + 1 + Wt
                       /\ IF withJson
                          THEN SubSeq(line, Len(cols) + 1, Len(line))
                                   = JsonTag(Camelize(tt[k].Field, FALSE))
                          ELSE line = cols

\* A struct has been returned whose second name and second type are the
\* longer ones.
C15_Witness ==
    /\ Returned("CreateStruct")
    /\ Len(tt) = 2
    /\ Len(Camelize(tt[1].Field, TRUE)) < Len(Camelize(tt[2].Field, TRUE))
    /\ Len(getType(tt[1])) < Len(getType(tt[2]))

\* The number of occurrences of the byte b in s.
Count(s, b) == Cardinality({i \in 1..Len(s) : s[i] = b})

\* C17: the result of Camelize holds no underscore, its length is the length
\* of the input minus the number of its underscores, and it is the input
\* without its underscores up to letter case.
C17_OnlyUnderscoresRemoved ==
    Returned("Camelize")
        => /\ Count(result, "_") = 0
           /\ Len(result) = Len(input) - Count(input, "_")
           /\ ToUpper(result) = ToUpper(RemoveAll(input, <<"_">>))

----------------------------------------------------------------------------
(* Properties of CreateAllTablesStructFile and writeToFile (SpecFile) *)

\* The keys of the sequence of keys ks.
Keys(ks) == {ks[i] : i \in 1..Len(ks)}

\* Does the map m hold a table with no columns?
HasEmptyTable(m) == \E k \in DOMAIN m : Len(m[k]) < 1

\* The file as a record, as fileAtCall and file0 hold it.
FileNow == [present |-> filePresent, content |-> fileContent]

\* "package <pkg>", a blank line, then for each key of ks in order the struct
\* of its table and a blank line.
C11_Text(pkg, m, ks, json) ==
    <<"p", "a", "c", "k", "a", "g", "e", " ">> \o pkg \o <<"\n">> \o <<"\n">>
        \o Join([i \in 1..Len(ks) |->
                     StructText(m[ks[i]], ks[i], json) \o <<"\n">> \o <<"\n">>])

\* C11: the text CreateAllTablesStructFile hands to writeToFile is the package
\* line, a blank line, and the struct of each table followed by a blank line,
\* for the tables in the order the loop visited them; that order holds every
\* key of the map exactly once.
C11_HeaderThenEachTableOnce ==
    (fn = "CreateAllTablesStructFile" /\ pc = "loop")
        => /\ builder = C11_Text(packageName, descriptors, emitted, withJson)
           /\ Cardinality(Keys(emitted)) = Len(emitted)
           /\ Keys(emitted) \cap remaining = {}
           /\ Keys(emitted) \cup remaining = DOMAIN descriptors
           /\ remaining = {}
                  => /\ Len(emitted) = Cardinality(DOMAIN descriptors)
                     /\ Keys(emitted) = DOMAIN descriptors

\* Two calls on the same two-table map have returned, and the second wrote
\* the tables in the opposite order of the first.
C11_Witness ==
    /\ fn = "CreateAllTablesStructFile" /\ pc = "idle"
    /\ Len(written) = 2
    /\ Len(emitted) = 2
    /\ \A k \in FileTables : k \in DOMAIN descriptors /\ Len(descriptors[k]) > 0
    /\ written[2] = C11_Text(packageName, descriptors, emitted, withJson)
    /\ written[1] = C11_Text(packageName, descriptors,
                             <<emitted[2], emitted[1]>>, withJson)
    /\ written[1] # written[2]

\* C14: as long as no write has failed, the file holds what it held before
\* the first call followed by the text of each call that returned, in call
\* order; it exists once a call has returned; what it held when the current
\* call began is a prefix of what it holds; and each call's text begins with
\* its own "package " header.
C14_AppendOnly ==
    (fn = "CreateAllTablesStructFile" /\ ~filePartial)
        => /\ fileContent = file0.content \o Join(written)
           /\ Len(written) = nCalls
           /\ nCalls > 0 => filePresent
           /\ nCalls = 0 => FileNow = file0
           /\ StartsWith(fileContent, fileAtCall.content)
           /\ StartsWith(fileContent, file0.content)
           /\ \A i \in 1..Len(written) :
                  StartsWith(written[i], <<"p", "a", "c", "k", "a", "g", "e", " ">>)

\* Two calls have returned on a file that held text before the first, and the
\* file holds that text and two package headers.
C14_Witness ==
    /\ fn = "CreateAllTablesStructFile" /\ pc = "idle"
    /\ nCalls = 2
    /\ file0.present /\ Len(file0.content) > 0
    /\ Len(emitted) > 0
    /\ fileContent = file0.content \o written[1] \o written[2]

\* C16: a call whose map holds a table with no columns never reaches
\* writeToFile and never returns: while it runs and after it has panicked,
\* the file is as it was when the call began (absent if it was absent), and
\* the panic is the one of CreateStruct.
C16_AllOrNothing ==
    (fn = "CreateAllTablesStructFile" /\ HasEmptyTable(descriptors))
        => /\ pc \in {"loop", "panic"}
           /\ FileNow = fileAtCall
           /\ ~filePartial
           /\ Len(written) = nCalls
           /\ pc = "loop" => remaining # {}
           /\ pc = "panic" => panicMsg = PanicEmpty

\* A call has panicked on a table with no columns after the loop had visited
\* a valid table, and the file, absent before the call, is still absent.
C16_Witness ==
    /\ fn = "CreateAllTablesStructFile" /\ pc = "panic"
    /\ panicMsg = PanicEmpty
    /\ HasEmptyTable(descriptors)
    /\ Len(emitted) = 1
    /\ ~fileAtCall.present
    /\ ~filePresent /\ fileContent = <<>>

====
